---- MODULE Spec2Model ----
(***************************************************************************)
(* Treasure hunt (src/game.js): a player walks a square grid looking for   *)
(* treasures while a stationary monster hides in one cell.                 *)
(*                                                                         *)
(* The model follows the script top to bottom: the module-level variables, *)
(* initGame with its calls of chooseUnoccupiedLocation (one action per     *)
(* iteration of the do/while sampling loop), the start-up call             *)
(* enterLocation(toPoint(1,1)), and then one action per 'line' event of    *)
(* the readline interface.                                                 *)
(*                                                                         *)
(* Strings typed by the player are sequences of one-character strings, so  *)
(* that toLowerCase and trim are computed rather than assumed.  Console    *)
(* output is a sequence of message records; `out' holds what the most      *)
(* recent step wrote.                                                      *)
(***************************************************************************)
EXTENDS Integers, Sequences, FiniteSets

(* The source sets GRID_SIZE = 5 (src/game.js:15) and lists six treasures  *)
(* (src/game.js:17).  The random placement has (g*g-1)!/(g*g-2-n)! ordered *)
(* outcomes, so the model is checked on a smaller square and on the first  *)
(* NumTreasures names of the list.                                         *)
GRID_SIZE == 3

NumTreasures == 2

treasures == SubSeq(<<"gem", "ruby", "diamond", "coin", "emerald", "goblet">>, 1, NumTreasures)

(* JavaScript's undefined: a value different from every point.             *)
Undefined == [undefined |-> TRUE]

(* findPoint's "not found" result; indices of sequences start at 1 here,   *)
(* so 0 is free to stand for the undefined it returns.                     *)
NotFound == 0

VARIABLES
    pc,                  \* position in the script
    treasureLocations,   \* sequence of points, Undefined once found
    foundTreasureCount,
    monsterLocation,
    playerLocation,
    usedLocations,       \* initGame's local list, threaded through the allocator
    location,            \* chooseUnoccupiedLocation's local: the last sample
    line,                \* the text handed to the most recent 'line' handler
    command,             \* processCommand's parameter once lines 196-198 have run
    result,              \* what the most recent enterLocation/processCommand returned
    out,                 \* console output of the most recent step
    closed               \* rl.close() has been called

vars == <<pc, treasureLocations, foundTreasureCount, monsterLocation, playerLocation,
          usedLocations, location, line, command, result, out, closed>>

gameVars == <<treasureLocations, foundTreasureCount, monsterLocation, playerLocation>>

----------------------------------------------------------------------------
(* Points                                                                  *)

toPoint(x, y) == [x |-> x, y |-> y]

(* isEqualPoint with line 55 returning true: an absent point equals any.   *)
isEqualPoint_AbsentMatches(p1, p2) ==
    IF p1 = Undefined /\ p2 = Undefined THEN TRUE
    ELSE IF p1 = Undefined \/ p2 = Undefined THEN TRUE
    ELSE (p1.x = p2.x) /\ (p1.y = p2.y)

isEqualPoint(p1, p2) ==
    IF p1 = Undefined /\ p2 = Undefined THEN TRUE
    ELSE IF p1 = Undefined \/ p2 = Undefined THEN FALSE
    ELSE (p1.x = p2.x) /\ (p1.y = p2.y)

findPoint(list, pt) ==
    LET hits == {i \in 1..Len(list) : isEqualPoint(list[i], pt)}
    IN  IF hits = {} THEN NotFound
        ELSE CHOOSE i \in hits : \A j \in hits : i <= j

(* isAdjacent without the test of the x coordinates, lines 180-182.        *)
isAdjacent_YOnly(p1, p2) ==
    IF (p2.y < p1.y - 1) \/ (p2.y > p1.y + 1) THEN FALSE
    ELSE TRUE

(* isAdjacent with line 176 reading p2.y < p1.y.                            *)
isAdjacent_OneSided(p1, p2) ==
    IF (p2.y < p1.y) \/ (p2.y > p1.y + 1) THEN FALSE
    ELSE IF (p2.x < p1.x - 1) \/ (p2.x > p1.x + 1) THEN FALSE
    ELSE TRUE

isAdjacent(p1, p2) ==
    IF (p2.y < p1.y - 1) \/ (p2.y > p1.y + 1) THEN FALSE
    ELSE IF (p2.x < p1.x - 1) \/ (p2.x > p1.x + 1) THEN FALSE
    ELSE TRUE

----------------------------------------------------------------------------
(* Console messages                                                        *)

MsgLocation(p)   == [kind |-> "location", pt |-> p]
MsgDeath         == [kind |-> "death"]
MsgFound(name)   == [kind |-> "found", name |-> name]
MsgWin(n)        == [kind |-> "win", n |-> n]
MsgRemaining(n)  == [kind |-> "remaining", n |-> n, plural |-> (n > 1)]
MsgGrowl         == [kind |-> "growl"]
MsgWhat          == [kind |-> "what"]
MsgUnknown       == [kind |-> "unknown"]
MsgBlocked       == [kind |-> "blocked"]
MsgThanks        == [kind |-> "thanks"]
MsgPrompt        == [kind |-> "prompt"]

Kinds(msgs) == {msgs[i].kind : i \in 1..Len(msgs)}

----------------------------------------------------------------------------
(* Start of the script: the module-level initialisers, lines 17-23.        *)

Init ==
    /\ pc = "initGame"
    /\ treasureLocations = <<>>
    /\ foundTreasureCount = 0
    /\ monsterLocation = toPoint(0, 0)
    /\ playerLocation = toPoint(0, 0)
    /\ usedLocations = <<>>
    /\ location = Undefined
    /\ line = <<>>
    /\ command = <<>>
    /\ result = TRUE
    /\ out = <<>>
    /\ closed = FALSE

----------------------------------------------------------------------------
(* Location allocator, lines 88-98.                                        *)

(* Line 92 without the + 1: coordinates from 0 to GRID_SIZE - 1.           *)
RandomPoints_ZeroBased ==
    {toPoint(x, y) : x \in 0..(GRID_SIZE - 1), y \in 0..(GRID_SIZE - 1)}

(* One evaluation of line 92: Math.floor(Math.random() * GRID_SIZE) + 1 on *)
(* each axis can produce any point of the grid.                            *)
RandomPoints == {toPoint(x, y) : x \in 1..GRID_SIZE, y \in 1..GRID_SIZE}

(* The loop condition looking at the most recently used point only.        *)
Occupied_OnlyLast(used, loc) == isEqualPoint(used[Len(used)], loc)

(* The loop condition of line 94: sample again while the point is used.    *)
Occupied(used, loc) == findPoint(used, loc) # NotFound

(* chooseUnoccupiedLocation(usedLocations): the points the call can return *)
(* once its loop has ended.                                                *)
chooseUnoccupiedLocation(used) == {loc \in RandomPoints : ~Occupied(used, loc)}

(* initGame up to its first allocator call, lines 104-110.                 *)
(* initGame with line 110 starting from an empty list: the player's start  *)
(* is not reserved.                                                        *)
InitGame_StartNotUsed ==
    /\ pc = "initGame"
    /\ treasureLocations' = <<>>
    /\ foundTreasureCount' = 0
    /\ playerLocation' = toPoint(1, 1)
    /\ usedLocations' = <<>>
    /\ pc' = "monster"
    /\ UNCHANGED <<monsterLocation, location, line, command, result, out, closed>>

InitGame ==
    /\ pc = "initGame"
    /\ treasureLocations' = <<>>
    /\ foundTreasureCount' = 0
    /\ playerLocation' = toPoint(1, 1)
    /\ usedLocations' = <<toPoint(1, 1)>>
    /\ pc' = "monster"
    /\ UNCHANGED <<monsterLocation, location, line, command, result, out, closed>>

(* An iteration of the do/while loop whose sample is already used: the     *)
(* loop goes round again with nothing but its local changed.               *)
SampleAgain ==
    /\ pc \in {"monster", "treasure"}
    /\ \E loc \in RandomPoints :
          /\ Occupied(usedLocations, loc)
          /\ location' = loc
    /\ UNCHANGED <<pc, gameVars, usedLocations, line, command, result, out, closed>>

(* Line 113: the allocator returns the monster's location.                 *)
PlaceMonster ==
    /\ pc = "monster"
    /\ \E loc \in chooseUnoccupiedLocation(usedLocations) :
          /\ usedLocations' = Append(usedLocations, loc)
          /\ monsterLocation' = loc
    /\ location' = Undefined
    /\ pc' = "treasure"
    /\ UNCHANGED <<treasureLocations, foundTreasureCount, playerLocation,
                   line, command, result, out, closed>>

(* Lines 116-118: the allocator returns the next treasure's location; the  *)
(* loop, and with it initGame, ends after treasures.length of them.        *)
PlaceTreasure ==
    /\ pc = "treasure"
    /\ \E loc \in chooseUnoccupiedLocation(usedLocations) :
          /\ usedLocations' = Append(usedLocations, loc)
          /\ treasureLocations' = Append(treasureLocations, loc)
    /\ location' = Undefined
    /\ pc' = IF Len(treasureLocations) + 1 < Len(treasures) THEN "treasure" ELSE "enter"
    /\ UNCHANGED <<foundTreasureCount, monsterLocation, playerLocation,
                   line, command, result, out, closed>>

----------------------------------------------------------------------------
(* Turn processor, lines 128-165.  The value is the state the call leaves  *)
(* behind, what it printed and what it returned.                           *)

(* The death check made on the location the player is leaving.             *)
MonsterAt_Stale(loc) == isEqualPoint(monsterLocation, playerLocation)

(* The death check made with the proximity test.                           *)
MonsterAt_Adjacent(loc) == isAdjacent(monsterLocation, loc)

(* Line 134: the monster is in the location the player has just entered.   *)
MonsterAt(loc) == isEqualPoint(monsterLocation, loc)

(* The found treasure left in place.                                       *)
Clear_Noop(locations, treasure) == locations

(* The found treasure spliced out of the list, the later ones moving up.   *)
Clear_Shift(locations, treasure) ==
    SubSeq(locations, 1, treasure - 1)
        \o SubSeq(locations, treasure + 1, Len(locations)) \o <<Undefined>>

(* Line 145: the found treasure's location is cleared.                     *)
Clear(locations, treasure) == [locations EXCEPT ![treasure] = Undefined]

(* The win test one treasure early.                                        *)
AllFound_OffByOne(count) == count = Len(treasures) - 1

(* The win test with > for ==.                                             *)
AllFound_Never(count) == count > Len(treasures)

(* Line 148: the incremented count has reached the number of treasures.    *)
AllFound(count) == count = Len(treasures)

(* Lines 160-162.                                                          *)
Growl(loc) == IF isAdjacent(monsterLocation, loc) THEN <<MsgGrowl>> ELSE <<>>

(* enterLocation with the proximity warning of lines 160-162 moved up,     *)
(* ahead of the treasure check.                                            *)
enterLocation_GrowlFirst(loc) ==
    LET treasure  == findPoint(treasureLocations, loc)
        count     == foundTreasureCount + 1
        remaining == Len(treasures) - count
    IN  IF MonsterAt(loc)
        THEN [player |-> loc, locations |-> treasureLocations, found |-> foundTreasureCount,
              out |-> <<MsgLocation(loc), MsgDeath>>, ret |-> FALSE]
        ELSE IF treasure # NotFound
        THEN IF AllFound(count)
             THEN [player |-> loc,
                   locations |-> Clear(treasureLocations, treasure),
                   found |-> count,
                   out |-> <<MsgLocation(loc)>> \o Growl(loc)
                              \o <<MsgFound(treasures[treasure]), MsgWin(count)>>,
                   ret |-> FALSE]
             ELSE [player |-> loc,
                   locations |-> Clear(treasureLocations, treasure),
                   found |-> count,
                   out |-> <<MsgLocation(loc)>> \o Growl(loc)
                              \o <<MsgFound(treasures[treasure]), MsgRemaining(remaining)>>,
                   ret |-> TRUE]
        ELSE [player |-> loc, locations |-> treasureLocations, found |-> foundTreasureCount,
              out |-> <<MsgLocation(loc)>> \o Growl(loc), ret |-> TRUE]

enterLocation(loc) ==
    LET treasure  == findPoint(treasureLocations, loc)
        count     == foundTreasureCount + 1
        remaining == Len(treasures) - count
    IN  IF MonsterAt(loc)
        THEN [player |-> loc, locations |-> treasureLocations, found |-> foundTreasureCount,
              out |-> <<MsgLocation(loc), MsgDeath>>, ret |-> FALSE]
        ELSE IF treasure # NotFound
        THEN IF AllFound(count)
             THEN [player |-> loc,
                   locations |-> Clear(treasureLocations, treasure),
                   found |-> count,
                   out |-> <<MsgLocation(loc), MsgFound(treasures[treasure]), MsgWin(count)>>,
                   ret |-> FALSE]
             ELSE [player |-> loc,
                   locations |-> Clear(treasureLocations, treasure),
                   found |-> count,
                   out |-> <<MsgLocation(loc), MsgFound(treasures[treasure]),
                             MsgRemaining(remaining)>> \o Growl(loc),
                   ret |-> TRUE]
        ELSE [player |-> loc, locations |-> treasureLocations, found |-> foundTreasureCount,
              out |-> <<MsgLocation(loc)>> \o Growl(loc), ret |-> TRUE]

----------------------------------------------------------------------------
(* Command processor, lines 194-244.                                       *)

(* Line 197 without the conversion to lower case.                          *)
toLowerCase_Identity(s) == s

(* Line 197, over the letters that occur in Lines below.                   *)
toLowerCase(s) ==
    [i \in 1..Len(s) |->
        CASE s[i] = "Q" -> "q"
          [] s[i] = "L" -> "l"
          [] s[i] = "R" -> "r"
          [] s[i] = "U" -> "u"
          [] s[i] = "D" -> "d"
          [] s[i] = "X" -> "x"
          [] OTHER -> s[i]]

WhiteSpace == {" ", "\t"}

RECURSIVE trimStart(_)
trimStart(s) ==
    IF s # <<>> /\ Head(s) \in WhiteSpace THEN trimStart(Tail(s)) ELSE s

RECURSIVE trimEnd(_)
trimEnd(s) ==
    IF s # <<>> /\ s[Len(s)] \in WhiteSpace THEN trimEnd(SubSeq(s, 1, Len(s) - 1)) ELSE s

trim(s) == trimEnd(trimStart(s))

(* Line 197 without the trim.                                              *)
Normalize_NoTrim(cmd) == IF cmd # <<>> THEN toLowerCase(cmd) ELSE cmd

(* Lines 196-198: the empty string is falsy and is left as it is.          *)
Normalize(cmd) == IF cmd # <<>> THEN trim(toLowerCase(cmd)) ELSE cmd

(* A return of processCommand that leaves the game state alone.            *)
Stay(msgs, ret) ==
    [player |-> playerLocation, locations |-> treasureLocations,
     found |-> foundTreasureCount, out |-> msgs, ret |-> ret]

(* Moving left with no test of the edge.                                   *)
moveLeft_NoCheck == toPoint(playerLocation.x - 1, playerLocation.y)

(* Lines 213-215, 218-220, 223-225 and 228-230: the candidate location of  *)
(* each direction, Undefined when the edge of the grid blocks the move.    *)
moveLeft ==
    IF playerLocation.x > 1
    THEN toPoint(playerLocation.x - 1, playerLocation.y) ELSE Undefined

(* Moving right with no test of the edge.                                  *)
moveRight_NoCheck == toPoint(playerLocation.x + 1, playerLocation.y)

moveRight ==
    IF playerLocation.x < GRID_SIZE
    THEN toPoint(playerLocation.x + 1, playerLocation.y) ELSE Undefined

(* Moving up with the step taken downwards.                                *)
moveUp_Inverted ==
    IF playerLocation.y > 1
    THEN toPoint(playerLocation.x, playerLocation.y + 1) ELSE Undefined

moveUp ==
    IF playerLocation.y > 1
    THEN toPoint(playerLocation.x, playerLocation.y - 1) ELSE Undefined

(* Moving down never leaves the row.                                       *)
moveDown_Stuck == Undefined

moveDown ==
    IF playerLocation.y < GRID_SIZE
    THEN toPoint(playerLocation.x, playerLocation.y + 1) ELSE Undefined

(* Lines 207-231: newLocation after the chain of comparisons.              *)
newLocation(cmd) ==
    CASE cmd = <<"l">> -> moveLeft
      [] cmd = <<"r">> -> moveRight
      [] cmd = <<"u">> -> moveUp
      [] cmd = <<"d">> -> moveDown
      [] OTHER -> Undefined

processCommand(raw) ==
    LET cmd == Normalize(raw)
    IN  IF Len(cmd) = 0 THEN Stay(<<MsgWhat>>, TRUE)
        ELSE IF cmd = <<"q">> THEN Stay(<<>>, FALSE)
        ELSE IF cmd \notin {<<"l">>, <<"r">>, <<"u">>, <<"d">>} THEN Stay(<<MsgUnknown>>, TRUE)
        ELSE IF newLocation(cmd) = Undefined THEN Stay(<<MsgBlocked>>, TRUE)
        ELSE enterLocation(newLocation(cmd))

----------------------------------------------------------------------------
(* The script's last lines, 246-263.                                       *)

(* Lines typed by the player, as sequences of characters.                  *)
Lines ==
    { <<>>, <<" ">>,
      <<"q">>, <<" ", "Q", "\t">>,
      <<"l">>, <<"L">>,
      <<"r">>,
      <<"u">>,
      <<"d">>, <<"D", " ">>,
      <<"x">>, <<"l", "r">> }

(* The assignments a call of enterLocation or processCommand has made to   *)
(* the module-level variables, and the value it returned.                  *)
Apply(r) ==
    /\ playerLocation' = r.player
    /\ treasureLocations' = r.locations
    /\ foundTreasureCount' = r.found
    /\ result' = r.ret
    /\ UNCHANGED monsterLocation

(* Lines 248-263: the start-up call enterLocation(toPoint(1,1)), whose     *)
(* return value is dropped, then the handler is registered and the first   *)
(* prompt is shown.                                                        *)
EnterStart ==
    /\ pc = "enter"
    /\ LET r == enterLocation(toPoint(1, 1))
       IN  /\ Apply(r)
           /\ out' = r.out \o <<MsgPrompt>>
    /\ pc' = "loop"
    /\ UNCHANGED <<usedLocations, location, line, command, closed>>

(* The 'line' handler, lines 253-261.  rl.prompt() on a closed interface   *)
(* writes the prompt in some releases of Node and throws                   *)
(* ERR_USE_AFTER_CLOSE in others; an exception thrown out of the handler   *)
(* ends the process.                                                       *)
OnLine(raw) ==
    \E r \in {processCommand(raw)} :
        /\ line' = raw
        /\ command' = Normalize(raw)
        /\ Apply(r)
        /\ IF ~r.ret
           THEN /\ closed' = TRUE
                /\ out' = r.out \o <<MsgThanks>>
                /\ pc' = pc
           ELSE /\ closed' = closed
                /\ \/ /\ out' = r.out \o <<MsgPrompt>>
                      /\ pc' = pc
                   \/ /\ closed
                      /\ out' = r.out
                      /\ pc' = "crashed"
        /\ UNCHANGED <<usedLocations, location>>

(* A line arrives while the interface is open.                             *)
Line ==
    /\ pc = "loop"
    /\ ~closed
    /\ \E raw \in Lines : OnLine(raw)

(* rl.close() does not stop 'line' events already on their way: the lines  *)
(* that were read in the same chunk as the closing one are still handed to *)
(* the handler, which is never removed.                                    *)
LateLine ==
    /\ pc = "loop"
    /\ closed
    /\ \E raw \in Lines : OnLine(raw)

Next ==
    \/ InitGame
    \/ SampleAgain
    \/ PlaceMonster
    \/ PlaceTreasure
    \/ EnterStart
    \/ Line
    \/ LateLine

Spec == Init /\ [][Next]_vars

----------------------------------------------------------------------------
(* Vocabulary of the properties.                                           *)

N == Len(treasures)

(* initGame has returned.                                                  *)
Placed == pc \in {"enter", "loop", "crashed"}

(* The handler is registered: the step that follows is a 'line' event.     *)
InLoop == pc = "loop"

AtMonster == playerLocation = monsterLocation

(* What the game itself printed: the output without the loop's prompt and  *)
(* farewell.                                                               *)
GameOut(msgs) == SelectSeq(msgs, LAMBDA m : m.kind \notin {"prompt", "thanks"})

OnGrid(p) == p.x \in 1..GRID_SIZE /\ p.y \in 1..GRID_SIZE

(* C1: right after initGame, the player's location (1,1), the monster's    *)
(* location and the treasures' locations are pairwise distinct points of   *)
(* the grid, whatever the random samples were.                             *)
C1_PlacementUnique ==
    pc = "enter" =>
        LET all == <<playerLocation, monsterLocation>> \o treasureLocations
        IN  /\ playerLocation = toPoint(1, 1)
            /\ Len(treasureLocations) = N
            /\ \A i \in 1..Len(all) : all[i] # Undefined /\ OnGrid(all[i])
            /\ \A i, j \in 1..Len(all) : i # j => all[i] # all[j]

(* A placement that needed the far corner and put a treasure next to the   *)
(* player's start.                                                         *)
C1_Witness ==
    /\ pc = "enter"
    /\ monsterLocation = toPoint(GRID_SIZE, GRID_SIZE)
    /\ treasureLocations[1] = toPoint(1, 2)
    /\ Len(treasureLocations) = N

(* C2 as stated: in every state of the session, the game has stopped       *)
(* accepting moves if and only if the player is on the monster or every    *)
(* treasure is found.                                                      *)
C2_StoppedIffDeadOrWon ==
    InLoop => (closed <=> (AtMonster \/ foundTreasureCount = N))

(* C2 amended: the game stops accepting moves on exactly the turns whose   *)
(* command is q, whose move puts the player on the monster or whose move   *)
(* brings the count to the number of treasures; it never reopens; and as   *)
(* long as it accepts moves the player is not on the monster and some      *)
(* treasure is unfound.                                                    *)
C2_StopsOnQuitDeathOrWin ==
    [][ /\ (InLoop /\ ~closed) =>
              (closed' <=> (command' = <<"q">> \/ AtMonster' \/ foundTreasureCount' = N))
        /\ closed => closed'
        /\ (InLoop' /\ ~closed') => (~AtMonster' /\ foundTreasureCount' < N)
      ]_vars

(* The session stopped by q with the player alive and treasures left.      *)
C2_Witness ==
    /\ InLoop /\ closed
    /\ command = <<"q">>
    /\ ~AtMonster
    /\ foundTreasureCount = 1

(* C3: once a command has returned continue = false, a line delivered      *)
(* afterwards changes neither the player's location, the treasures nor the *)
(* count, and nothing more is printed: no game message, no second          *)
(* "Thanks for playing!", no prompt.                                       *)
C3_NothingAfterTerminal ==
    [][closed => UNCHANGED <<playerLocation, treasureLocations, foundTreasureCount, out>>]_vars

(* The step printed a location message: enterLocation ran in it.           *)
Entered == out' # <<>> /\ out'[1].kind = "location"

(* The treasures still in place at the location l, by index.               *)
TreasuresAt(l) == {i \in 1..Len(treasureLocations) : treasureLocations[i] = l}

(* C4: a command returns continue = false only if it normalizes to q, or   *)
(* its move put the player on the monster, or its move collected the last  *)
(* remaining treasure; every other command returns true.                   *)
C4_EndsOnlyByQuitWinLoss ==
    [][InLoop =>
          (result' = FALSE <=>
              \/ command' = <<"q">>
              \/ (Entered /\ AtMonster')
              \/ (Entered /\ foundTreasureCount = N - 1 /\ foundTreasureCount' = N))
      ]_vars

(* A command other than q that ended the session with the player alive:    *)
(* the last treasure was collected.                                        *)
C4_Witness ==
    /\ InLoop
    /\ result = FALSE
    /\ command # <<"q">>
    /\ ~AtMonster
    /\ foundTreasureCount = N

(* C5: a move onto the monster's location prints the location and the      *)
(* death message and nothing else from the game, returns continue = false, *)
(* and leaves the count and the treasure list as they were.                *)
C5_DeathPrecedence ==
    [][(InLoop /\ Entered /\ AtMonster') =>
          /\ result' = FALSE
          /\ GameOut(out') = <<MsgLocation(playerLocation'), MsgDeath>>
          /\ UNCHANGED <<foundTreasureCount, treasureLocations>>
      ]_vars

(* The player has just walked onto the monster.                            *)
C5_Witness ==
    /\ InLoop
    /\ AtMonster
    /\ GameOut(out) = <<MsgLocation(playerLocation), MsgDeath>>
    /\ command \in {<<"l">>, <<"r">>, <<"u">>, <<"d">>}

(* C6: the move that brings the count to the number of treasures prints    *)
(* the location, the found treasure and the win message naming the total,  *)
(* with no remaining-count message and no growl, and returns               *)
(* continue = false; and a win message is printed only on such a move,     *)
(* which did not land on the monster.                                      *)
C6_WinCondition ==
    [][InLoop =>
          /\ (foundTreasureCount # N /\ foundTreasureCount' = N) =>
                /\ result' = FALSE
                /\ \E i \in TreasuresAt(playerLocation') :
                      GameOut(out') = <<MsgLocation(playerLocation'),
                                        MsgFound(treasures[i]), MsgWin(N)>>
          /\ "win" \in Kinds(out') =>
                /\ ~AtMonster'
                /\ foundTreasureCount = N - 1
                /\ foundTreasureCount' = N
      ]_vars

(* The last treasure collected in a cell next to the monster: the growl    *)
(* that an ordinary turn would print there is not printed.                 *)
C6_Witness ==
    /\ InLoop
    /\ foundTreasureCount = N
    /\ "win" \in Kinds(out)
    /\ "growl" \notin Kinds(out)
    /\ isAdjacent(monsterLocation, playerLocation)

(* C7: from the end of initGame on, the count is the number of treasures   *)
(* whose location is absent, and lies between 0 and the number of          *)
(* treasures.                                                              *)
C7_CountMatchesAbsent ==
    Placed =>
        /\ foundTreasureCount =
              Cardinality({i \in 1..Len(treasureLocations) : treasureLocations[i] = Undefined})
        /\ foundTreasureCount \in 0..N

(* One treasure found and cleared, another still in place.                 *)
C7_Witness ==
    /\ InLoop
    /\ foundTreasureCount = 1
    /\ treasureLocations[1] # Undefined
    /\ treasureLocations[N] = Undefined

(* C8: the count never decreases; it goes up, by exactly one, on exactly   *)
(* the turns that enter a location which is not the monster's and holds a  *)
(* treasure still in place; that treasure's location then becomes absent,  *)
(* an absent location stays absent, and a turn that finds nothing reports  *)
(* no treasure.                                                            *)
C8_TreasureMonotonic ==
    [][Placed =>
          /\ foundTreasureCount' \in {foundTreasureCount, foundTreasureCount + 1}
          /\ (foundTreasureCount' = foundTreasureCount + 1) <=>
                (Entered /\ ~AtMonster' /\ TreasuresAt(playerLocation') # {})
          /\ (foundTreasureCount' = foundTreasureCount + 1) =>
                \E i \in TreasuresAt(playerLocation') :
                   /\ treasureLocations'[i] = Undefined
                   /\ \A j \in 1..Len(treasureLocations) \ {i} :
                         treasureLocations'[j] = treasureLocations[j]
          /\ (foundTreasureCount' = foundTreasureCount) =>
                treasureLocations' = treasureLocations
          /\ \A i \in 1..Len(treasureLocations) :
                treasureLocations[i] = Undefined => treasureLocations'[i] = Undefined
          /\ ("found" \in Kinds(out')) <=> (foundTreasureCount' = foundTreasureCount + 1)
      ]_vars

(* The player is back in the cell where a treasure was found earlier, and  *)
(* the turn reported no treasure; usedLocations still holds where each     *)
(* treasure was placed.                                                    *)
C8_Witness ==
    /\ InLoop /\ ~closed
    /\ out[1].kind = "location"
    /\ "found" \notin Kinds(out)
    /\ \E i \in 1..Len(treasureLocations) :
          /\ treasureLocations[i] = Undefined
          /\ usedLocations[i + 2] = playerLocation

(* The command is a move that the edge of the grid blocks.                 *)
BlockedMove(cmd) ==
    \/ cmd = <<"l">> /\ playerLocation.x = 1
    \/ cmd = <<"u">> /\ playerLocation.y = 1
    \/ cmd = <<"r">> /\ playerLocation.x = GRID_SIZE
    \/ cmd = <<"d">> /\ playerLocation.y = GRID_SIZE

(* C9: l at x = 1, u at y = 1, r at x = GRID_SIZE and d at y = GRID_SIZE   *)
(* leave the player and the rest of the game state as they were, print     *)
(* the blocked-move message and nothing else from the game, and return     *)
(* continue = true.                                                        *)
C9_BoundaryEnforcement ==
    [][InLoop =>
          \A cmd \in {command'} :
             BlockedMove(cmd) =>
                /\ UNCHANGED gameVars
                /\ GameOut(out') = <<MsgBlocked>>
                /\ result' = TRUE
      ]_vars

(* "D " typed on the bottom row.                                           *)
C9_Witness ==
    /\ InLoop /\ ~closed
    /\ line = <<"D", " ">>
    /\ playerLocation.y = GRID_SIZE
    /\ out = <<MsgBlocked, MsgPrompt>>

(* The one-step neighbour a direction command asks for.                    *)
Step(cmd) ==
    CASE cmd = <<"l">> -> toPoint(playerLocation.x - 1, playerLocation.y)
      [] cmd = <<"r">> -> toPoint(playerLocation.x + 1, playerLocation.y)
      [] cmd = <<"u">> -> toPoint(playerLocation.x, playerLocation.y - 1)
      [] cmd = <<"d">> -> toPoint(playerLocation.x, playerLocation.y + 1)

(* C10: a command l, r, u or d that the edge does not block moves the      *)
(* player one step in its direction (l: x-1, r: x+1, u: y-1, d: y+1, the   *)
(* other coordinate kept), and the state it leaves, what it prints and     *)
(* what it returns are those of enterLocation on that neighbour.           *)
C10_MovementSemantics ==
    [][InLoop =>
          \A cmd \in {command'} \cap {<<"l">>, <<"r">>, <<"u">>, <<"d">>} :
             ~BlockedMove(cmd) =>
                \A to \in {Step(cmd)} : \A r \in {enterLocation(to)} :
                   /\ playerLocation' = to
                   /\ treasureLocations' = r.locations
                   /\ foundTreasureCount' = r.found
                   /\ monsterLocation' = monsterLocation
                   /\ GameOut(out') = r.out
                   /\ result' = r.ret
      ]_vars

(* "u" has taken the player from the bottom row to the middle one.         *)
C10_Witness ==
    /\ InLoop /\ ~closed
    /\ line = <<"u">>
    /\ out[1] = MsgLocation(playerLocation)
    /\ playerLocation.y = GRID_SIZE - 1
    /\ playerLocation.x = GRID_SIZE

(* C11: from the end of initGame on, whatever commands are given, both     *)
(* coordinates of the player's location lie in 1..GRID_SIZE.               *)
C11_PlayerOnGrid ==
    Placed => OnGrid(playerLocation)

(* The player has walked to the corner opposite the start.                 *)
C11_Witness ==
    /\ InLoop /\ ~closed
    /\ playerLocation = toPoint(GRID_SIZE, GRID_SIZE)
    /\ command \in {<<"r">>, <<"d">>}

(* The text has no character besides white space.                          *)
IsBlankText(text) == \A i \in 1..Len(text) : text[i] \in {" ", "\t"}

(* The text without its white space.                                       *)
Letters(text) == SelectSeq(text, LAMBDA ch : ch \notin {" ", "\t"})

(* The text is the one letter of a command, in either case, with white     *)
(* space around it at most.                                                *)
IsCommandText(text) ==
    Letters(text) \in {<<"q">>, <<"Q">>, <<"l">>, <<"L">>, <<"r">>, <<"R">>,
                       <<"u">>, <<"U">>, <<"d">>, <<"D">>}

(* C12: a line that is empty or blank prints "What??", any other line that *)
(* is not q, l, r, u or d prints "I don't know what you mean"; either way  *)
(* the game state is unchanged, continue = true is returned, and the       *)
(* handler goes on to the prompt of an open session.                       *)
C12_InputRejection ==
    [][InLoop =>
          \A text \in {line'} :
             /\ IsBlankText(text) =>
                   /\ GameOut(out') = <<MsgWhat>>
                   /\ UNCHANGED gameVars
                   /\ result' = TRUE
                   /\ ~closed => (out' = <<MsgWhat, MsgPrompt>> /\ InLoop')
             /\ (~IsBlankText(text) /\ ~IsCommandText(text)) =>
                   /\ GameOut(out') = <<MsgUnknown>>
                   /\ UNCHANGED gameVars
                   /\ result' = TRUE
                   /\ ~closed => (out' = <<MsgUnknown, MsgPrompt>> /\ InLoop')
      ]_vars

(* A line of one blank was answered with "What??".                         *)
C12_Witness ==
    /\ InLoop /\ ~closed
    /\ line = <<" ">>
    /\ out = <<MsgWhat, MsgPrompt>>
    /\ foundTreasureCount = 1

(* C13: q, in either case and with white space around it, returns          *)
(* continue = false, prints no game message, and leaves the player, the    *)
(* monster, the treasures and the count as they were.                      *)
C13_Quit ==
    [][InLoop =>
          \A text \in {line'} :
             Letters(text) \in {<<"q">>, <<"Q">>} =>
                /\ result' = FALSE
                /\ GameOut(out') = <<>>
                /\ UNCHANGED gameVars
      ]_vars

(* " Q" followed by a tab ended an open session after one treasure.        *)
C13_Witness ==
    /\ InLoop /\ closed
    /\ line = <<" ", "Q", "\t">>
    /\ out = <<MsgThanks>>
    /\ foundTreasureCount = 1
    /\ ~AtMonster

Abs(n) == IF n < 0 THEN -n ELSE n

(* C14: a turn that enters a location, the start-up entry into (1,1)       *)
(* included, prints the growl exactly when it returns continue = true and  *)
(* the monster is within one cell of the new location on both axes.        *)
C14_ProximityWarning ==
    [][(pc \in {"enter", "loop"} /\ Entered) =>
          ("growl" \in Kinds(out') <=>
              /\ result' = TRUE
              /\ Abs(monsterLocation'.x - playerLocation'.x) <= 1
              /\ Abs(monsterLocation'.y - playerLocation'.y) <= 1)
      ]_vars

(* A treasure that is not the last was found diagonally next to the        *)
(* monster, and the growl followed.                                        *)
C14_Witness ==
    /\ InLoop /\ ~closed
    /\ "found" \in Kinds(out)
    /\ "growl" \in Kinds(out)
    /\ Abs(monsterLocation.x - playerLocation.x) = 1
    /\ Abs(monsterLocation.y - playerLocation.y) = 1

(* C15: no step after initGame moves the monster or a treasure that is     *)
(* still in place, and the monster's location, the locations of the        *)
(* treasures in place and the start (1,1) are all different.               *)
C15_MonsterAndTreasuresFixed ==
    [][Placed' =>
          /\ Placed => monsterLocation' = monsterLocation
          /\ Placed =>
                \A i \in 1..Len(treasureLocations') :
                   treasureLocations'[i] # Undefined =>
                      treasureLocations'[i] = treasureLocations[i]
          /\ LET fixed == <<toPoint(1, 1), monsterLocation'>>
                             \o SelectSeq(treasureLocations', LAMBDA p : p # Undefined)
             IN  \A i, j \in 1..Len(fixed) : i # j => fixed[i] # fixed[j]
      ]_vars

(* The first treasure has been found, the second is where it was placed,   *)
(* and the player has moved on.                                            *)
C15_Witness ==
    /\ InLoop /\ ~closed
    /\ treasureLocations[1] = Undefined
    /\ treasureLocations[N] = usedLocations[N + 2]
    /\ playerLocation # usedLocations[3]

(* The kinds of the messages, in the order printed.                        *)
KindsInOrder(msgs) == [i \in 1..Len(msgs) |-> msgs[i].kind]

(* C18: a turn that enters a location prints the location first; then      *)
(* either the death message and nothing more, or, when a treasure is       *)
(* found, the found message followed at once by the win message or by the  *)
(* remaining count (the number of treasures less the count, at least 1,    *)
(* "treasures" in the plural above 1); the growl, if any, comes last.      *)
C18_MessageOrder ==
    [][(pc \in {"enter", "loop"} /\ Entered) =>
          \A g \in {GameOut(out')} :
             /\ g[1] = MsgLocation(playerLocation')
             /\ KindsInOrder(g) \in
                   { <<"location", "death">>,
                     <<"location">>,
                     <<"location", "growl">>,
                     <<"location", "found", "win">>,
                     <<"location", "found", "remaining">>,
                     <<"location", "found", "remaining", "growl">> }
             /\ "remaining" \in Kinds(g) =>
                   /\ g[3].n = N - foundTreasureCount'
                   /\ g[3].n >= 1
                   /\ g[3].plural = (g[3].n > 1)
             /\ "win" \in Kinds(g) => g[3].n = N
      ]_vars

(* A treasure found next to the monster with one more to find: location,   *)
(* found, "1 more treasure", growl, and then the prompt.                   *)
C18_Witness ==
    /\ InLoop /\ ~closed
    /\ KindsInOrder(out) = <<"location", "found", "remaining", "growl", "prompt">>
    /\ out[3].n = 1
    /\ out[3].plural = FALSE

(* C19: the start-up call enterLocation((1,1)), whose return value the     *)
(* script ignores, returns true and finds nothing, whatever the placement: *)
(* the count stays 0, every treasure stays in place, and the first prompt  *)
(* is shown with the player alive at (1,1).                                *)
C19_StartupEntryIsQuiet ==
    [][pc = "enter" =>
          /\ result' = TRUE
          /\ foundTreasureCount' = 0
          /\ treasureLocations' = treasureLocations
          /\ \A i \in 1..Len(treasureLocations') : treasureLocations'[i] # Undefined
          /\ playerLocation' = toPoint(1, 1)
          /\ playerLocation' # monsterLocation'
          /\ Kinds(out') \subseteq {"location", "growl", "prompt"}
      ]_vars

(* The session has just started with the monster right below the player:   *)
(* location, growl, prompt.                                                *)
C19_Witness ==
    /\ InLoop /\ ~closed
    /\ line = <<>> /\ command = <<>>
    /\ out = <<MsgLocation(toPoint(1, 1)), MsgGrowl, MsgPrompt>>
    /\ monsterLocation = toPoint(1, 2)
    /\ result = TRUE

----------------------------------------------------------------------------
(* isAdjacent on its own: one call on any two points of the grid, made the *)
(* way line 160 makes it, with the monster first.                          *)

InitAdjacent ==
    /\ pc = "isAdjacent"
    /\ monsterLocation \in RandomPoints
    /\ playerLocation \in RandomPoints
    /\ treasureLocations = <<>>
    /\ foundTreasureCount = 0
    /\ usedLocations = <<>>
    /\ location = Undefined
    /\ line = <<>>
    /\ command = <<>>
    /\ result = TRUE
    /\ out = <<>>
    /\ closed = FALSE

CallIsAdjacent ==
    /\ pc = "isAdjacent"
    /\ result' = isAdjacent(monsterLocation, playerLocation)
    /\ pc' = "isAdjacentDone"
    /\ UNCHANGED <<gameVars, usedLocations, location, line, command, out, closed>>

SpecAdjacent == InitAdjacent /\ [][CallIsAdjacent]_vars

(* C16: isAdjacent gives the same answer with its arguments exchanged, and *)
(* a point is adjacent to itself.                                          *)
C16_AdjacencySymmetricReflexive ==
    pc = "isAdjacentDone" =>
        /\ result = isAdjacent(playerLocation, monsterLocation)
        /\ (playerLocation = monsterLocation => result = TRUE)
        /\ \A p \in RandomPoints : isAdjacent(p, p)

(* Two different points, diagonal neighbours, found adjacent.              *)
C16_Witness ==
    /\ pc = "isAdjacentDone"
    /\ monsterLocation = toPoint(1, 2)
    /\ playerLocation = toPoint(2, 3)
    /\ result = TRUE

----------------------------------------------------------------------------
(* chooseUnoccupiedLocation on its own, beside the calls initGame makes.   *)
(* The list handed to it is any list that uses at most MaxCells cells of   *)
(* the grid or leaves at most MaxCells of them free, the full grid         *)
(* included.                                                               *)

MaxCells == 2

RECURSIVE ListOf(_)
ListOf(cells) ==
    IF cells = {} THEN <<>>
    ELSE LET p == CHOOSE q \in cells : TRUE
         IN  <<p>> \o ListOf(cells \ {p})

UsedLists ==
    {ListOf(cells) : cells \in {c \in SUBSET RandomPoints :
                                   \/ Cardinality(c) <= MaxCells
                                   \/ Cardinality(RandomPoints \ c) <= MaxCells}}

InitAllocator ==
    \/ Init
    \/ /\ pc = "choose"
       /\ usedLocations \in UsedLists
       /\ treasureLocations = <<>>
       /\ foundTreasureCount = 0
       /\ monsterLocation = toPoint(0, 0)
       /\ playerLocation = toPoint(0, 0)
       /\ location = Undefined
       /\ line = <<>>
       /\ command = <<>>
       /\ result = TRUE
       /\ out = <<>>
       /\ closed = FALSE

(* Lines 91-94, a sample that is already used: the loop goes round again.  *)
ChooseAgain ==
    /\ pc = "choose"
    /\ \E loc \in RandomPoints :
          /\ Occupied(usedLocations, loc)
          /\ location' = loc
    /\ UNCHANGED <<pc, gameVars, usedLocations, line, command, result, out, closed>>

(* Lines 96-97: the sample is pushed and returned.                         *)
ChooseReturn ==
    /\ pc = "choose"
    /\ \E loc \in chooseUnoccupiedLocation(usedLocations) :
          /\ usedLocations' = Append(usedLocations, loc)
          /\ location' = loc
    /\ pc' = "returned"
    /\ UNCHANGED <<gameVars, line, command, result, out, closed>>

NextAllocator ==
    \/ ChooseAgain
    \/ ChooseReturn
    \/ InitGame
    \/ SampleAgain
    \/ PlaceMonster
    \/ PlaceTreasure

(* Fair sampling: every point of the grid keeps a positive probability at  *)
(* each evaluation of line 92, so a loop that can end on some sample does  *)
(* not go round for ever.                                                  *)
SpecAllocator ==
    /\ InitAllocator
    /\ [][NextAllocator]_vars
    /\ WF_vars(ChooseReturn)
    /\ WF_vars(InitGame)
    /\ WF_vars(PlaceMonster)
    /\ WF_vars(PlaceTreasure)

Cells == {toPoint(x, y) : x \in 1..GRID_SIZE, y \in 1..GRID_SIZE}

UsedCells == {usedLocations[i] : i \in 1..Len(usedLocations)}

Saturated == Cells \subseteq UsedCells

(* C17: the allocator has no failure outcome; a call whose list leaves a   *)
(* cell free returns under fair sampling, what it returns is a cell of the *)
(* grid that was not in the list, and the list grows by exactly that cell; *)
(* a call whose list holds every cell keeps sampling and never returns;    *)
(* and initGame, whose treasures and two other locations fit the grid,     *)
(* runs to its end.                                                        *)
C17_AllocatorLiveness ==
    /\ [](pc \in {"choose", "returned", "initGame", "monster", "treasure", "enter"})
    /\ [][(pc = "choose" /\ pc' = "returned") =>
             /\ location' \in Cells \ UsedCells
             /\ usedLocations' = Append(usedLocations, location')
         ]_vars
    /\ [][(pc \in {"monster", "treasure"} /\ usedLocations' # usedLocations) =>
             \E loc \in Cells \ UsedCells : usedLocations' = Append(usedLocations, loc)
         ]_vars
    /\ [][(pc = "choose" /\ Saturated) => (pc' = "choose" /\ usedLocations' = usedLocations)]_vars
    /\ []((pc = "choose" /\ Saturated) => ENABLED ChooseAgain)
    /\ (pc = "choose" /\ ~Saturated) ~> (pc = "returned")
    /\ (pc = "initGame") ~> (pc = "enter" /\ Len(treasureLocations) = N)

(* The call returned the one cell that was still free, and the list now    *)
(* holds the whole grid.                                                   *)
C17_Witness ==
    /\ pc = "returned"
    /\ Saturated
    /\ Len(usedLocations) = GRID_SIZE * GRID_SIZE
    /\ location = usedLocations[Len(usedLocations)]

----------------------------------------------------------------------------
(* A player who, from some turn on, types only the commands of a shortest  *)
(* route to the unfound treasure of lowest index, the route being laid     *)
(* around the monster's cell on the plain coordinates of the grid.  The    *)
(* route is the player's; what each command does is the handler's.         *)

MoveLines == { <<"l">>, <<"r">>, <<"u">>, <<"d">> }

(* The cell the player expects a command to lead to.                       *)
Ahead(cmd) ==
    CASE cmd = <<"l">> -> toPoint(playerLocation.x - 1, playerLocation.y)
      [] cmd = <<"r">> -> toPoint(playerLocation.x + 1, playerLocation.y)
      [] cmd = <<"u">> -> toPoint(playerLocation.x, playerLocation.y - 1)
      [] cmd = <<"d">> -> toPoint(playerLocation.x, playerLocation.y + 1)

Safe == Cells \ {monsterLocation}

Target ==
    treasureLocations[CHOOSE i \in 1..Len(treasureLocations) :
                          /\ treasureLocations[i] # Undefined
                          /\ \A j \in 1..(i - 1) : treasureLocations[j] = Undefined]

Between(a, m, b) == (a < m /\ m < b) \/ (b < m /\ m < a)

(* The two steps more that the way round costs when the monster stands on  *)
(* the straight line between the cell p and the cell t.                    *)
Detour(p, t) ==
    IF \/ p.x = t.x /\ monsterLocation.x = p.x /\ Between(p.y, monsterLocation.y, t.y)
       \/ p.y = t.y /\ monsterLocation.y = p.y /\ Between(p.x, monsterLocation.x, t.x)
    THEN 2 ELSE 0

(* The number of steps from the cell p to the target through safe cells.   *)
Distance(p) == Abs(p.x - Target.x) + Abs(p.y - Target.y) + Detour(p, Target)

RouteLines ==
    {cmd \in MoveLines : /\ Ahead(cmd) \in Safe
                         /\ Distance(Ahead(cmd)) < Distance(playerLocation)}

(* The player of an open session starts following the route.               *)
TakeRoute ==
    /\ pc = "loop"
    /\ ~closed
    /\ pc' = "route"
    /\ UNCHANGED <<gameVars, usedLocations, location, line, command, result, out, closed>>

(* The handler, lines 253-261, on a move typed before the route is taken.  *)
(* The other lines are left out here: they leave the player, the treasures *)
(* and the count as they are, or end the session.                          *)
MoveLine ==
    /\ pc = "loop"
    /\ ~closed
    /\ \E raw \in MoveLines : OnLine(raw)

(* The handler, lines 253-261, on the next line of the route.              *)
RouteLine ==
    /\ pc = "route"
    /\ ~closed
    /\ \E raw \in RouteLines : OnLine(raw)

NextWinnable ==
    \/ InitGame
    \/ SampleAgain
    \/ PlaceMonster
    \/ PlaceTreasure
    \/ EnterStart
    \/ MoveLine
    \/ TakeRoute
    \/ RouteLine

(* Placement as in Spec, any moves while the session is open, and a player *)
(* on the route who keeps typing.                                          *)
SpecWinnable ==
    /\ Init
    /\ [][NextWinnable]_vars
    /\ WF_vars(RouteLine)

Won ==
    /\ closed
    /\ result = FALSE
    /\ foundTreasureCount = N
    /\ \A i \in 1..N : treasureLocations[i] = Undefined
    /\ ~AtMonster
    /\ MsgWin(N) \in {out[i] : i \in 1..Len(out)}

(* C20: the game is always winnable.  In every state where the session is  *)
(* open (the player is alive and a treasure is left) the player can take   *)
(* the route; on the route there is always a next command among l, r, u    *)
(* and d; each of them moves the player to the cell it aims at, which is   *)
(* never the monster's, and either collects a treasure or brings the       *)
(* player nearer to the next one; and the route ends, after finitely many  *)
(* commands, with every treasure collected and the win outcome.            *)
C20_AlwaysWinnable ==
    /\ []((pc = "loop" /\ ~closed) => (~AtMonster /\ foundTreasureCount < N /\ ENABLED TakeRoute))
    /\ []((pc = "route" /\ ~closed) => (RouteLines # {} /\ ENABLED RouteLine))
    /\ [][pc = "route" =>
             /\ command' \in MoveLines
             /\ playerLocation' = Ahead(command')
             /\ playerLocation' # monsterLocation'
             /\ \/ foundTreasureCount' = foundTreasureCount + 1
                \/ /\ foundTreasureCount' = foundTreasureCount
                   /\ Distance(playerLocation)' < Distance(playerLocation)
             /\ closed' <=> Won'
         ]_vars
    /\ [](pc = "route" => (closed <=> Won))
    /\ (pc = "route") ~> (pc = "route" /\ Won)

(* The route went down the middle column past the monster in the corner    *)
(* and ended on the last treasure.                                         *)
C20_Witness ==
    /\ pc = "route"
    /\ Won
    /\ command = <<"d">>
    /\ monsterLocation = toPoint(1, GRID_SIZE)
    /\ playerLocation = toPoint(2, GRID_SIZE)

====
